---- MODULE Spec2Model ----
(***************************************************************************)
(* A model of the social-network backend of src/app.py and src/models.py:  *)
(* two MongoDB collections (users, tweets) and the eight Flask handlers    *)
(* that read and write them.  One action per handler; every action         *)
(* records the request it served and the (HTTP code, envelope) it          *)
(* returned.                                                               *)
(***************************************************************************)
EXTENDS Integers, Sequences, FiniteSets, TLC

\* Bounds of the model: how many documents each collection may hold, and
\* how many members the following arrays may hold in all.
MaxUsers == 2
MaxTweets == 2
MaxFollows == 2
\* How many Follow requests the server handles at the same time.
NThreads == 2

VARIABLES
    users,     \* mongo.db.users: the documents in insertion order
    tweets,    \* mongo.db.tweets: the documents in insertion order
    req,       \* the request served last
    resp,      \* the response returned last: [http, body]
    store_up,  \* the MongoDB server answers; when FALSE every call raises
    created,   \* history: the data of every 201 response, per collection
    threads    \* the Follow requests handled concurrently, one per thread

vars == <<users, tweets, req, resp, store_up, created, threads>>

-----------------------------------------------------------------------------
(* Values.  Every scalar that travels in a request, a document or a        *)
(* response is a record [t, n, up]:                                         *)
(*   t = "none"  Python None (a JSON null, or a key that is absent)         *)
(*   t = "str"   a string that bson.ObjectId rejects; n = 0 is ""           *)
(*   t = "hex"   a string of 24 hex digits that spell the 12 bytes n;       *)
(*               up says that its letters are written in upper case         *)
(*   t = "oid"   a native bson.ObjectId holding the 12 bytes n              *)

None == [t |-> "none", n |-> 0, up |-> FALSE]
Str(k) == [t |-> "str", n |-> k, up |-> FALSE]
EmptyStr == Str(0)
Hex(k, u) == [t |-> "hex", n |-> k, up |-> u]
Oid(k) == [t |-> "oid", n |-> k, up |-> FALSE]

\* The strings the requests of the model carry.
Alice == Str(1)
Mail == Str(2)
Hello == Str(3)
Junk == Str(4)

\* Python truthiness: `not v` holds of None and of the empty string.
Falsy_is_none(v) == v.t = "none"
Falsy_empty_only(v) == v.t = "str" /\ v.n = 0
Falsy(v) == v.t = "none" \/ (v.t = "str" /\ v.n = 0)

\* bson.ObjectId.is_valid on a string: exactly 24 hex digits, either case.
IsValidObjectId_any(v) == TRUE
IsValidObjectId(v) == v.t = "hex"

\* bson.ObjectId(v) where IsValidObjectId(v): the 12 bytes, the case is lost.
ObjectId(v) == Oid(v.n)

\* str(oid): the 24 lower-case hex digits.
StrOf(v) == IF v.t = "oid" THEN Hex(v.n, FALSE) ELSE v

\* HTTPStatus
OK == 200
CREATED == 201
BAD_REQUEST == 400
NOT_FOUND == 404
INTERNAL_SERVER_ERROR == 500

-----------------------------------------------------------------------------
(* The store.                                                               *)

Range(s) == {s[i] : i \in 1..Len(s)}

\* collection.find_one({"_id": oid}): the document, or None.
find_one_unfiltered(coll, oid) == IF Len(coll) > 0 THEN coll[1] ELSE None
find_one(coll, oid) ==
    IF \E i \in 1..Len(coll) : coll[i]._id = oid
    THEN coll[CHOOSE i \in 1..Len(coll) : coll[i]._id = oid]
    ELSE None

\* datetime.utcnow() at the construction of a document, as a logical time:
\* the number of documents its collection held before it.
utcnow(coll) == Len(coll)

\* The ObjectId the driver generates for an insert: unique over the store.
\* Users draw 1..MaxUsers; tweets draw from above MaxUsers + 1, so that
\* Hex(MaxUsers + 1) is a well-formed identifier no user ever has.
NewUserObjectId == Oid(Len(users) + 1)
NewTweetObjectId == Oid(MaxUsers + 1 + Len(tweets) + 1)

\* $addToSet on an array: appended unless a member already.
AddToSet_push(arr, v) == Append(arr, v)
AddToSet_overwrite(arr, v) == <<v>>
AddToSet(arr, v) == IF v \in Range(arr) THEN arr ELSE Append(arr, v)

\* users.update_one({"_id": oid}, {"$addToSet": {"following": v}})
update_one_addToSet_mutual(coll, oid, v) ==
    [i \in 1..Len(coll) |->
        IF coll[i]._id = oid
        THEN [coll[i] EXCEPT !.following = AddToSet(@, v)]
        ELSE IF coll[i]._id = v
        THEN [coll[i] EXCEPT !.following = AddToSet(@, oid)]
        ELSE coll[i]]
update_one_addToSet(coll, oid, v) ==
    [i \in 1..Len(coll) |->
        IF coll[i]._id = oid
        THEN [coll[i] EXCEPT !.following = AddToSet(@, v)]
        ELSE coll[i]]

\* result.modified_count of that update: 1 when the document changed.
modified_count_matched(coll, oid, v) ==
    IF \E i \in 1..Len(coll) : coll[i]._id = oid THEN 1 ELSE 0
modified_count(coll, oid, v) ==
    IF update_one_addToSet(coll, oid, v) = coll THEN 0 ELSE 1

\* User.save: the document inserted for a new user.
User_save(username, email) ==
    [_id |-> NewUserObjectId, username |-> username, email |-> email,
     created_at |-> utcnow(users), following |-> <<>>]

\* Tweet.save: the document inserted for a new tweet; user_id is stored as
\* it was received.
Tweet_save(user_id, text) ==
    [_id |-> NewTweetObjectId, user_id |-> user_id, text |-> text,
     created_at |-> utcnow(tweets)]

MapSeq(s, F(_)) == [i \in 1..Len(s) |-> F(s[i])]

\* User.get_all: _id and every member of following converted with str.
UserAllView(u) ==
    [u EXCEPT !._id = StrOf(@), !.following = MapSeq(@, StrOf)]
User_get_all_first ==
    IF users = <<>> THEN <<>> ELSE <<UserAllView(users[1])>>
User_get_all == MapSeq(users, UserAllView)

\* User.get_by_id: only _id is converted with str.
UserByIdView_raw(u) == u
UserByIdView(u) == [u EXCEPT !._id = StrOf(@)]
User_get_by_id(oid) ==
    IF find_one(users, oid) = None THEN None
    ELSE UserByIdView(find_one(users, oid))

\* Tweet.get_all and the loop of get_user_timeline: _id converted with str.
TweetView(tw) == [tw EXCEPT !._id = StrOf(@)]
Tweet_get_all == MapSeq(tweets, TweetView)

\* tweets.find({"user_id": {"$in": following_ids}}): a tweet matches when
\* its user_id equals a member, in value and in BSON type.
InFollowing_any(following_ids, tw) == TRUE
InFollowing(following_ids, tw) == tw.user_id \in Range(following_ids)
tweets_find_in(following_ids) ==
    LET Match(tw) == InFollowing(following_ids, tw)
    IN  SelectSeq(tweets, Match)

-----------------------------------------------------------------------------
(* The envelope.                                                            *)

\* create_api_response: data only under "success", error only under
\* "error", code only when truthy.  keys is the set of keys of the dict.
create_api_response_no_code(status, message, data, error, code) ==
    [status |-> status, message |-> message,
     data |-> IF status = "success" THEN data ELSE None,
     error |-> IF status = "error" THEN error ELSE None,
     code |-> 0,
     keys |-> {"status", "message"}
              \cup (IF status = "success" THEN {"data"} ELSE {})
              \cup (IF status = "error" THEN {"error"} ELSE {})]
create_api_response(status, message, data, error, code) ==
    [status |-> status, message |-> message,
     data |-> IF status = "success" THEN data ELSE None,
     error |-> IF status = "error" THEN error ELSE None,
     code |-> IF code # 0 THEN code ELSE 0,
     keys |-> {"status", "message"}
              \cup (IF status = "success" THEN {"data"} ELSE {})
              \cup (IF status = "error" THEN {"error"} ELSE {})
              \cup (IF code # 0 THEN {"code"} ELSE {})]

\* return jsonify(create_api_response(...)), code
Reply(status, message, data, error, code) ==
    [http |-> code,
     body |-> create_api_response(status, message, data, error, code)]

ErrorDetails(code, details) == [code |-> code, details |-> details]

\* str(e) of the exception a store call raises when the server fails.
DatabaseError == "Database error"

\* The except branch of a handler: 500 with str(e) as details.
Caught_no_details(message, e) ==
    Reply("error", message, None, None, INTERNAL_SERVER_ERROR)
Caught(message, e) ==
    Reply("error", message, None,
          ErrorDetails(INTERNAL_SERVER_ERROR, e), INTERNAL_SERVER_ERROR)

-----------------------------------------------------------------------------
(* Requests.  request.json is the parsed JSON object of the body, a record  *)
(* of the fields the handler reads; json.get(key) of an absent key is None. *)

\* Identifier strings a client sends: well-formed ones for every user the
\* model can hold and for one more, an upper-case spelling, and a
\* malformed one.
IdStrings ==
    {Hex(k, FALSE) : k \in 1..(MaxUsers + 1)} \cup {Hex(1, TRUE), Junk}

\* A path segment <user_id> is a non-empty string.
PathIds == IdStrings
\* A JSON field may also be absent (None) or empty.
BodyIds == IdStrings \cup {None, EmptyStr}
\* The user_id fields of the Create-tweet requests: two well-formed
\* identifiers, a malformed one, an absent and an empty one.
TweetUserIds == {Hex(1, FALSE), Hex(2, FALSE), Junk, None, EmptyStr}

\* The members of all following arrays of coll.
RECURSIVE TotalFollowing(_)
TotalFollowing(coll) ==
    IF coll = <<>> THEN 0
    ELSE Len(Head(coll).following) + TotalFollowing(Tail(coll))

Request(op, user_id, json) == [op |-> op, user_id |-> user_id, json |-> json]

NoRequest == Request("none", None, None)
NoResponse == [http |-> 0, body |-> None]

\* No request is being served.
Idle == req = NoRequest

\* The threads of the server, and a thread that has no request: pc is the
\* statement of follow_user the thread is at, user and current_user are the
\* handler's local variables, fresh records that at the time the request
\* arrived both users were stored and the follower did not follow the
\* target.
Threads == 1..NThreads
NoThread ==
    [pc |-> "idle", user_id |-> None, json |-> [current_user_id |-> None],
     user |-> None, current_user |-> None, fresh |-> FALSE,
     resp |-> NoResponse]

Init ==
    /\ users = <<>>
    /\ tweets = <<>>
    /\ req = NoRequest
    /\ resp = NoResponse
    /\ store_up = TRUE
    /\ created = [users |-> <<>>, tweets |-> <<>>]
    /\ threads = [t \in Threads |-> NoThread]

\* The response is out: a 201 is entered in the history; the handlers do
\* not touch the server's availability.
Answered ==
    /\ created' =
         IF resp'.http = CREATED /\ req'.op = "create_user"
         THEN [created EXCEPT !.users = Append(@, resp'.body.data)]
         ELSE IF resp'.http = CREATED /\ req'.op = "create_tweet"
         THEN [created EXCEPT !.tweets = Append(@, resp'.body.data)]
         ELSE created
    /\ UNCHANGED <<store_up, threads>>

-----------------------------------------------------------------------------
(* Handlers.  Each *_run operator is the handler's try block on the current *)
(* store: the collection it leaves and the response it returns.             *)

\* POST /users
create_user_run(json) ==
    IF Falsy(json.username) \/ Falsy(json.email)
    THEN [users |-> users,
          resp |-> Reply("error", "Username and email are required", None,
                       ErrorDetails(BAD_REQUEST,
                           "Both 'username' and 'email' are required in the request"),
                       BAD_REQUEST)]
    ELSE IF ~store_up
    THEN [users |-> users,
          resp |-> Caught("Error creating user", DatabaseError)]
    ELSE [users |-> Append(users, User_save(json.username, json.email)),
          resp |-> Reply("success", "User created successfully",
                       [user_id |-> StrOf(NewUserObjectId),
                        username |-> json.username, email |-> json.email],
                       None, CREATED)]

create_user ==
    \E json \in [username : {None, EmptyStr, Alice},
                 email : {None, EmptyStr, Mail}] :
        /\ Idle
        /\ Len(create_user_run(json).users) <= MaxUsers
        /\ users' = create_user_run(json).users
        /\ req' = Request("create_user", None, json)
        /\ resp' = create_user_run(json).resp
        /\ UNCHANGED tweets
        /\ Answered

\* GET /users
get_users_run ==
    IF ~store_up THEN Caught("Error fetching users", DatabaseError)
    ELSE Reply("success", "Users retrieved successfully", User_get_all,
               None, OK)

get_users ==
    /\ Idle
    /\ req' = Request("get_users", None, None)
    /\ resp' = get_users_run
    /\ UNCHANGED <<users, tweets>>
    /\ Answered

\* GET /users/<user_id>
get_user_by_id_run(user_id) ==
    IF ~IsValidObjectId(user_id)
    THEN Caught("Error fetching user", "InvalidId")
    ELSE IF ~store_up THEN Caught("Error fetching user", DatabaseError)
    ELSE IF User_get_by_id(ObjectId(user_id)) # None
    THEN Reply("success", "User retrieved successfully",
               User_get_by_id(ObjectId(user_id)), None, OK)
    ELSE Reply("error", "User not found", None,
               ErrorDetails(NOT_FOUND, "User with ID {user_id} not found"),
               NOT_FOUND)

get_user_by_id_upsert ==
    \E user_id \in PathIds :
        /\ Idle
        /\ req' = Request("get_user_by_id", user_id, None)
        /\ resp' = get_user_by_id_run(user_id)
        /\ users' = IF resp'.http = NOT_FOUND /\ Len(users) < MaxUsers
                    THEN Append(users,
                                [User_save(None, None) EXCEPT
                                    !._id = ObjectId(user_id)])
                    ELSE users
        /\ UNCHANGED tweets
        /\ Answered
get_user_by_id ==
    \E user_id \in PathIds :
        /\ Idle
        /\ req' = Request("get_user_by_id", user_id, None)
        /\ resp' = get_user_by_id_run(user_id)
        /\ UNCHANGED <<users, tweets>>
        /\ Answered

\* POST /tweets
create_tweet_run(json) ==
    IF Falsy(json.user_id) \/ Falsy(json.text)
    THEN [tweets |-> tweets,
          resp |-> Reply("error", "User ID and tweet text are required", None,
                       ErrorDetails(BAD_REQUEST,
                           "Both 'user_id' and 'text' are required in the request"),
                       BAD_REQUEST)]
    ELSE IF ~store_up
    THEN [tweets |-> tweets,
          resp |-> Caught("Error creating tweet", DatabaseError)]
    ELSE [tweets |-> Append(tweets, Tweet_save(json.user_id, json.text)),
          resp |-> Reply("success", "Tweet created successfully",
                       [tweet_id |-> StrOf(NewTweetObjectId),
                        user_id |-> json.user_id, text |-> json.text],
                       None, CREATED)]

create_tweet ==
    \E json \in [user_id : TweetUserIds, text : {None, EmptyStr, Hello}] :
        /\ Idle
        /\ Len(create_tweet_run(json).tweets) <= MaxTweets
        /\ tweets' = create_tweet_run(json).tweets
        /\ req' = Request("create_tweet", None, json)
        /\ resp' = create_tweet_run(json).resp
        /\ UNCHANGED users
        /\ Answered

\* GET /tweets
get_tweets_run ==
    IF ~store_up THEN Caught("Error fetching tweets", DatabaseError)
    ELSE Reply("success", "Tweets retrieved successfully", Tweet_get_all,
               None, OK)

get_tweets ==
    /\ Idle
    /\ req' = Request("get_tweets", None, None)
    /\ resp' = get_tweets_run
    /\ UNCHANGED <<users, tweets>>
    /\ Answered

\* `if not user or not current_user` of follow_user.
EitherMissing_both(user, current_user) == user = None /\ current_user = None
EitherMissing(user, current_user) == user = None \/ current_user = None

\* POST /users/<user_id>/follow
follow_user_run(user_id, json) ==
    IF Falsy(json.current_user_id)
    THEN [users |-> users,
          resp |-> Reply("error", "current_user_id is required", None, None,
                       BAD_REQUEST)]
    ELSE IF ~IsValidObjectId(user_id)
    THEN [users |-> users,
          resp |-> Caught("Error following user", "InvalidId")]
    ELSE IF ~store_up
    THEN [users |-> users,
          resp |-> Caught("Error following user", DatabaseError)]
    ELSE IF ~IsValidObjectId(json.current_user_id)
    THEN [users |-> users,
          resp |-> Caught("Error following user", "InvalidId")]
    ELSE IF EitherMissing(find_one(users, ObjectId(user_id)),
                          find_one(users, ObjectId(json.current_user_id)))
    THEN [users |-> users,
          resp |-> Reply("error", "User or current user not found", None,
                       None, NOT_FOUND)]
    ELSE [users |-> update_one_addToSet(users,
                        ObjectId(json.current_user_id), ObjectId(user_id)),
          resp |-> IF modified_count(users, ObjectId(json.current_user_id),
                                     ObjectId(user_id)) = 1
                   THEN Reply("success", "User followed successfully",
                              [user_id |-> user_id], None, OK)
                   ELSE Reply("error", "Failed to follow user", None, None,
                              INTERNAL_SERVER_ERROR)]

follow_user ==
    \E user_id \in PathIds :
    \E json \in [current_user_id : BodyIds] :
        /\ Idle
        /\ TotalFollowing(follow_user_run(user_id, json).users) <= MaxFollows
        /\ users' = follow_user_run(user_id, json).users
        /\ req' = Request("follow_user", user_id, json)
        /\ resp' = follow_user_run(user_id, json).resp
        /\ UNCHANGED tweets
        /\ Answered

\* GET /users/<user_id>/timeline
get_user_timeline_run(user_id) ==
    IF ~IsValidObjectId(user_id)
    THEN Caught("Error fetching timeline", "InvalidId")
    ELSE IF ~store_up THEN Caught("Error fetching timeline", DatabaseError)
    ELSE IF find_one(users, ObjectId(user_id)) = None
    THEN Reply("error", "User not found", None, None, NOT_FOUND)
    ELSE IF find_one(users, ObjectId(user_id)).following = <<>>
    THEN Reply("success", "No users followed yet", <<>>, None, OK)
    ELSE Reply("success", "Timeline retrieved successfully",
               MapSeq(tweets_find_in(
                          find_one(users, ObjectId(user_id)).following),
                      TweetView),
               None, OK)

get_user_timeline ==
    \E user_id \in PathIds :
        /\ Idle
        /\ req' = Request("get_user_timeline", user_id, None)
        /\ resp' = get_user_timeline_run(user_id)
        /\ UNCHANGED <<users, tweets>>
        /\ Answered

\* GET /ping: a literal dict, not built by create_api_response.
health_check_run_pings_store ==
    IF ~store_up THEN Caught("Error", DatabaseError)
    ELSE [http |-> OK,
          body |-> [status |-> "success", message |-> "pong", data |-> None,
                    error |-> None, code |-> 0,
                    keys |-> {"status", "message", "data"}]]
health_check_run ==
    [http |-> OK,
     body |-> [status |-> "success", message |-> "pong", data |-> None,
               error |-> None, code |-> 0,
               keys |-> {"status", "message", "data"}]]

health_check ==
    /\ Idle
    /\ req' = Request("health_check", None, None)
    /\ resp' = health_check_run
    /\ UNCHANGED <<users, tweets>>
    /\ Answered

\* The response has gone out to the client: the handlers keep nothing of a
\* request once it is answered, and the next request starts from the store.
request_done ==
    /\ ~Idle
    /\ req' = NoRequest
    /\ resp' = NoResponse
    /\ UNCHANGED <<users, tweets, store_up, created, threads>>

Next ==
    \/ create_user
    \/ get_users
    \/ get_user_by_id
    \/ create_tweet
    \/ get_tweets
    \/ follow_user
    \/ get_user_timeline
    \/ health_check
    \/ request_done

Spec == Init /\ [][Next]_vars

\* The MongoDB server stops answering, or answers again, between requests.
store_fails ==
    /\ Idle
    /\ store_up
    /\ store_up' = FALSE
    /\ UNCHANGED <<users, tweets, req, resp, created, threads>>

store_recovers ==
    /\ Idle
    /\ ~store_up
    /\ store_up' = TRUE
    /\ UNCHANGED <<users, tweets, req, resp, created, threads>>

NextFault ==
    \/ Next
    \/ store_fails
    \/ store_recovers

\* The handlers with a server that may fail.
SpecFault == Init /\ [][NextFault]_vars
-----------------------------------------------------------------------------
(* Concurrent Follow requests.  The server may run several follow_user      *)
(* calls in parallel threads; each call is three round trips to the store   *)
(* (find_one, find_one, update_one), and the store serves one round trip at *)
(* a time.  Users may be inserted while the calls run.                      *)

\* The requests the threads serve: two well-formed targets and a malformed
\* one, one follower or none.
ConcTargets == {Hex(2, FALSE), Hex(3, FALSE), Junk}
ConcFollowers == {Hex(1, FALSE), None}

\* users.insert_one of User.save, for a request that passed validation.
users_insert_one ==
    /\ Len(users) < MaxUsers + 1
    /\ users' = Append(users, User_save(Alice, Mail))
    /\ UNCHANGED <<tweets, req, resp, store_up, created, threads>>

\* The thread returns r.
Returns(t, r) == [threads EXCEPT ![t].pc = "done", ![t].resp = r]

\* The follower stored under oid in coll follows v.
Follows(coll, oid, v) ==
    \E i \in 1..Len(coll) :
        coll[i]._id = oid /\ v \in Range(coll[i].following)

\* The request arrives: `if not current_user_id`.
follow_user_begin(t) ==
    \E user_id \in ConcTargets, current_user_id \in ConcFollowers :
        /\ threads[t].pc = "idle"
        /\ threads' =
             LET th == [threads[t] EXCEPT
                          !.user_id = user_id,
                          !.json = [current_user_id |-> current_user_id],
                          !.fresh =
                              /\ user_id.t = "hex"
                              /\ current_user_id.t = "hex"
                              /\ Oid(user_id.n) \in
                                     {users[i]._id : i \in 1..Len(users)}
                              /\ Oid(current_user_id.n) \in
                                     {users[i]._id : i \in 1..Len(users)}
                              /\ ~Follows(users, Oid(current_user_id.n),
                                          Oid(user_id.n))]
             IN  IF Falsy(current_user_id)
                 THEN [threads EXCEPT
                          ![t] = [th EXCEPT
                                     !.pc = "done",
                                     !.resp = Reply("error",
                                         "current_user_id is required", None,
                                         None, BAD_REQUEST)]]
                 ELSE [threads EXCEPT ![t] = [th EXCEPT !.pc = "find_user"]]
        /\ UNCHANGED <<users, tweets, req, resp, store_up, created>>

\* user = mongo.db.users.find_one({"_id": ObjectId(user_id)})
follow_user_find_user(t) ==
    /\ threads[t].pc = "find_user"
    /\ threads' =
         IF ~IsValidObjectId(threads[t].user_id)
         THEN Returns(t, Caught("Error following user", "InvalidId"))
         ELSE IF ~store_up
         THEN Returns(t, Caught("Error following user", DatabaseError))
         ELSE [threads EXCEPT
                  ![t].user = find_one(users, ObjectId(threads[t].user_id)),
                  ![t].pc = "find_current_user"]
    /\ UNCHANGED <<users, tweets, req, resp, store_up, created>>

\* current_user = mongo.db.users.find_one({"_id": ObjectId(current_user_id)})
\* and `if not user or not current_user`.
follow_user_find_current_user(t) ==
    /\ threads[t].pc = "find_current_user"
    /\ threads' =
         IF ~IsValidObjectId(threads[t].json.current_user_id)
         THEN Returns(t, Caught("Error following user", "InvalidId"))
         ELSE IF ~store_up
         THEN Returns(t, Caught("Error following user", DatabaseError))
         ELSE IF EitherMissing(threads[t].user,
                               find_one(users,
                                   ObjectId(threads[t].json.current_user_id)))
         THEN [threads EXCEPT
                  ![t].current_user =
                      find_one(users,
                               ObjectId(threads[t].json.current_user_id)),
                  ![t].pc = "done",
                  ![t].resp = Reply("error", "User or current user not found",
                                    None, None, NOT_FOUND)]
         ELSE [threads EXCEPT
                  ![t].current_user =
                      find_one(users,
                               ObjectId(threads[t].json.current_user_id)),
                  ![t].pc = "update_one"]
    /\ UNCHANGED <<users, tweets, req, resp, store_up, created>>

\* The update of follow_user as the store applies it: the $addToSet is
\* evaluated by the server on the stored document, not on the document the
\* handler read.
follow_update_read_modify_write(coll, current_user, oid, v) ==
    [i \in 1..Len(coll) |->
        IF coll[i]._id = oid
        THEN [coll[i] EXCEPT !.following = AddToSet(current_user.following, v)]
        ELSE coll[i]]
follow_update(coll, current_user, oid, v) == update_one_addToSet(coll, oid, v)

\* result = mongo.db.users.update_one(...) and `if result.modified_count == 1`
follow_user_update_one(t) ==
    /\ threads[t].pc = "update_one"
    /\ users' =
         IF ~store_up THEN users
         ELSE follow_update(users, threads[t].current_user,
                            ObjectId(threads[t].json.current_user_id),
                            ObjectId(threads[t].user_id))
    /\ threads' =
         IF ~store_up
         THEN Returns(t, Caught("Error following user", DatabaseError))
         ELSE IF modified_count(users,
                                ObjectId(threads[t].json.current_user_id),
                                ObjectId(threads[t].user_id)) = 1
         THEN Returns(t, Reply("success", "User followed successfully",
                               [user_id |-> threads[t].user_id], None, OK))
         ELSE Returns(t, Reply("error", "Failed to follow user", None, None,
                               INTERNAL_SERVER_ERROR))
    /\ UNCHANGED <<tweets, req, resp, store_up, created>>

NextConc ==
    \/ users_insert_one
    \/ \E t \in Threads : follow_user_begin(t)
    \/ \E t \in Threads : follow_user_find_user(t)
    \/ \E t \in Threads : follow_user_find_current_user(t)
    \/ \E t \in Threads : follow_user_update_one(t)

\* The concurrent Follow requests over a growing users collection.
SpecConc == Init /\ [][NextConc]_vars

-----------------------------------------------------------------------------
(* Vocabulary of the properties.                                            *)

\* A request field that is absent or empty.
Missing(v) == v = None \/ v = EmptyStr

UserIds(coll) == {coll[i]._id : i \in 1..Len(coll)}

\* v is a well-formed identifier string of a user stored in coll.
Exists(coll, v) == IsValidObjectId(v) /\ ObjectId(v) \in UserIds(coll)

\* The following array of the user oid in coll.
FollowingOf(coll, oid) == find_one(coll, oid).following

\* How many times v occurs in the array arr.
Count(arr, v) == Cardinality({i \in 1..Len(arr) : arr[i] = v})

\* The step serves a request of the handler op.
Serves(op) == Idle /\ req'.op = op

\* The step serves Follow(target, follower) with both users stored.
FollowOfStored ==
    /\ Serves("follow_user")
    /\ Exists(users, req'.user_id)
    /\ Exists(users, req'.json.current_user_id)

Target == ObjectId(req'.user_id)
Follower == ObjectId(req'.json.current_user_id)

-----------------------------------------------------------------------------
\* C1: Timeline(U) for a stored user U who follows exactly one user V, where
\* V is the author of exactly two stored tweets (their user_id is V's
\* identifier string), returns 200 with exactly those two tweets.
C1_TimelineOfFollowedAuthor ==
    (/\ req.op = "get_user_timeline"
     /\ Exists(users, req.user_id)
     /\ Len(FollowingOf(users, ObjectId(req.user_id))) = 1
     /\ Cardinality({i \in 1..Len(tweets) : tweets[i].user_id =
            StrOf(FollowingOf(users, ObjectId(req.user_id))[1])}) = 2)
    => (/\ resp.http = OK
        /\ Range(resp.body.data) =
             {TweetView(tweets[i]) : i \in
                {j \in 1..Len(tweets) : tweets[j].user_id =
                    StrOf(FollowingOf(users, ObjectId(req.user_id))[1])}})

\* C2: Create-tweet with non-empty user_id and text whose user_id matches
\* no stored user returns 404 'User not found' and persists nothing, so the
\* author of every stored tweet is a stored user.
C2_TweetAuthorMustExist ==
    /\ (/\ req.op = "create_tweet"
        /\ ~Missing(req.json.user_id) /\ ~Missing(req.json.text)
        /\ ~Exists(users, req.json.user_id))
       => (/\ resp.http = NOT_FOUND
           /\ resp.body.status = "error"
           /\ resp.body.message = "User not found")
    /\ \A i \in 1..Len(tweets) : Exists(users, tweets[i].user_id)

\* C3: Follow(target, follower) with both users stored (target = follower
\* included) returns 200 'User followed successfully' with data
\* {user_id: target} exactly when target was not yet in the follower's
\* following; when it was, it returns 500 'Failed to follow user' and the
\* store is unchanged.
C3_FollowOutcome ==
    [][FollowOfStored =>
         IF Target \notin Range(FollowingOf(users, Follower))
         THEN /\ resp'.http = OK
              /\ resp'.body.status = "success"
              /\ resp'.body.message = "User followed successfully"
              /\ resp'.body.data = [user_id |-> req'.user_id]
         ELSE /\ resp'.http = INTERNAL_SERVER_ERROR
              /\ resp'.body.status = "error"
              /\ resp'.body.message = "Failed to follow user"
              /\ users' = users /\ tweets' = tweets]_vars

\* A self-follow was repeated and answered 500 'Failed to follow user'.
C3_Witness ==
    /\ req.op = "follow_user"
    /\ Exists(users, req.user_id)
    /\ Exists(users, req.json.current_user_id)
    /\ ObjectId(req.user_id) = ObjectId(req.json.current_user_id)
    /\ resp.http = INTERNAL_SERVER_ERROR
    /\ resp.body.message = "Failed to follow user"

\* C4: Follow is idempotent on the data: after any Follow(target, follower)
\* of stored users the follower's following holds target exactly once, a
\* repeated Follow leaves the store as the first one left it, and a member
\* held once stays held once through every later step.
C4_FollowIdempotent ==
    [][/\ FollowOfStored =>
            /\ Count(FollowingOf(users', Follower), Target) = 1
            /\ Target \in Range(FollowingOf(users, Follower))
                 => users' = users
       /\ \A i \in 1..Len(users) : \A k \in 1..Len(users[i].following) :
            Count(users[i].following, users[i].following[k]) = 1
              => Count(users'[i].following, users[i].following[k]) = 1]_vars

\* A Follow was repeated and the follower's following holds the target once.
C4_Witness ==
    /\ req.op = "follow_user"
    /\ Exists(users, req.user_id)
    /\ Exists(users, req.json.current_user_id)
    /\ resp.body.message = "Failed to follow user"
    /\ Count(FollowingOf(users, ObjectId(req.json.current_user_id)),
             ObjectId(req.user_id)) = 1

\* C5: a Follow answered 200 appends target to the follower's following and
\* changes nothing else: every other user document, the follower's _id,
\* username, email and created_at, and the tweets stay as they were.
C5_FollowFrame ==
    [][(Serves("follow_user") /\ resp'.http = OK) =>
         /\ tweets' = tweets
         /\ Len(users') = Len(users)
         /\ \A i \in 1..Len(users) :
              users'[i] =
                IF users[i]._id = Follower
                THEN [users[i] EXCEPT !.following = Append(@, Target)]
                ELSE users[i]]_vars

\* A user followed another user, with a tweet stored, and got 200.
C5_Witness ==
    /\ req.op = "follow_user"
    /\ resp.http = OK
    /\ ObjectId(req.user_id) # ObjectId(req.json.current_user_id)
    /\ Len(users) = MaxUsers
    /\ Len(tweets) > 0
    /\ find_one(users, ObjectId(req.user_id)).following # <<>>

C7_FollowMissingFollower ==
    [][(Serves("follow_user") /\ Missing(req'.json.current_user_id))
       => (/\ resp'.http = BAD_REQUEST
           /\ resp'.body.status = "error"
           /\ resp'.body.message = "current_user_id is required"
           /\ users' = users /\ tweets' = tweets)]_vars

\* Follow of a malformed path identifier with an empty current_user_id was
\* answered 400.
C7_Witness ==
    /\ req.op = "follow_user"
    /\ ~IsValidObjectId(req.user_id)
    /\ req.json.current_user_id = EmptyStr
    /\ resp.http = BAD_REQUEST

\* C8: a Create call with a required field absent or empty returns 400 and
\* stores nothing: 'Username and email are required' for Create-user,
\* 'User ID and tweet text are required' with an error.details entry for
\* Create-tweet, whether or not the author is a stored user.
C8_CreateMissingField ==
    [][/\ (/\ Serves("create_user")
           /\ Missing(req'.json.username) \/ Missing(req'.json.email))
          => (/\ resp'.http = BAD_REQUEST
              /\ resp'.body.status = "error"
              /\ resp'.body.message = "Username and email are required"
              /\ users' = users /\ tweets' = tweets)
       /\ (/\ Serves("create_tweet")
           /\ Missing(req'.json.user_id) \/ Missing(req'.json.text))
          => (/\ resp'.http = BAD_REQUEST
              /\ resp'.body.status = "error"
              /\ resp'.body.message = "User ID and tweet text are required"
              /\ "error" \in resp'.body.keys
              /\ resp'.body.error # None
              /\ resp'.body.error.details # ""
              /\ users' = users /\ tweets' = tweets)]_vars

\* Create-tweet without text for an author that is not stored was answered
\* 400.
C8_Witness ==
    /\ req.op = "create_tweet"
    /\ IsValidObjectId(req.json.user_id)
    /\ ~Exists(users, req.json.user_id)
    /\ Missing(req.json.text)
    /\ resp.http = BAD_REQUEST

\* C9: Create-user with non-empty username and email returns 201 with an
\* identifier no stored user has and stores the user with these fields and
\* an empty following; GetById on the identifier of a stored user returns
\* 200 with that identifier, username, email and following; a stored
\* user's identifier, username and email never change, and its following
\* changes only by a Follow of that user answered 200.
C9_CreateThenGetById ==
    [][/\ (/\ Serves("create_user")
           /\ ~Missing(req'.json.username) /\ ~Missing(req'.json.email))
          => (/\ resp'.http = CREATED
              /\ IsValidObjectId(resp'.body.data.user_id)
              /\ ~Exists(users, resp'.body.data.user_id)
              /\ resp'.body.data.username = req'.json.username
              /\ resp'.body.data.email = req'.json.email
              /\ Len(users') = Len(users) + 1
              /\ users'[Len(users')] =
                   [_id |-> ObjectId(resp'.body.data.user_id),
                    username |-> req'.json.username,
                    email |-> req'.json.email,
                    created_at |-> users'[Len(users')].created_at,
                    following |-> <<>>])
       /\ (Serves("get_user_by_id") /\ Exists(users, req'.user_id))
          => (/\ resp'.http = OK
              /\ resp'.body.data._id = StrOf(ObjectId(req'.user_id))
              /\ LET u == find_one(users, ObjectId(req'.user_id)) IN
                 /\ resp'.body.data.username = u.username
                 /\ resp'.body.data.email = u.email
                 /\ resp'.body.data.following = u.following)
       /\ Len(users') >= Len(users)
       /\ \A i \in 1..Len(users) :
            /\ users'[i]._id = users[i]._id
            /\ users'[i].username = users[i].username
            /\ users'[i].email = users[i].email
            /\ users'[i].following # users[i].following
                 => (/\ Serves("follow_user")
                     /\ resp'.http = OK
                     /\ Follower = users[i]._id)]_vars

\* GetById of the second user returned 200 with an empty following while
\* the first user follows somebody.
C9_Witness ==
    /\ req.op = "get_user_by_id"
    /\ resp.http = OK
    /\ Len(users) = 2
    /\ resp.body.data._id = StrOf(users[2]._id)
    /\ resp.body.data.username = Alice
    /\ resp.body.data.following = <<>>
    /\ users[1].following # <<>>

\* C10: GetById and Timeline on a well-formed identifier that no stored user
\* has return 404 with status 'error' and message 'User not found', and
\* leave the store unchanged.
C10_UnknownUser ==
    [][(/\ Serves("get_user_by_id") \/ Serves("get_user_timeline")
        /\ IsValidObjectId(req'.user_id)
        /\ ~Exists(users, req'.user_id))
       => (/\ resp'.http = NOT_FOUND
           /\ resp'.body.status = "error"
           /\ resp'.body.message = "User not found"
           /\ users' = users /\ tweets' = tweets)]_vars

\* Timeline of a well-formed identifier that no stored user has was answered
\* 404 while users are stored.
C10_Witness ==
    /\ req.op = "get_user_timeline"
    /\ IsValidObjectId(req.user_id)
    /\ ~Exists(users, req.user_id)
    /\ Len(users) > 0
    /\ resp.http = NOT_FOUND

\* A non-empty string that is not a well-formed identifier.
Malformed(v) == v.t = "str" /\ v.n # 0

\* The answer of the step is the 500 of the except branch with this message.
Answers500(message) ==
    /\ resp'.http = INTERNAL_SERVER_ERROR
    /\ resp'.body.status = "error"
    /\ resp'.body.message = message
    /\ users' = users /\ tweets' = tweets

C12_TimelineMalformedIs400 ==
    (req.op = "get_user_timeline" /\ Malformed(req.user_id))
    => (/\ resp.http = BAD_REQUEST
        /\ resp.body.status = "error"
        /\ resp.body.message = "Invalid user ID format")

\* The tweet tw names the user oid as its author.
AuthoredBy(tw, oid) == tw.user_id.t = "hex" /\ tw.user_id.n = oid.n

\* No user that the array following holds is the author of a stored tweet.
NoFollowedAuthor(following) ==
    \A k \in 1..Len(following) : \A i \in 1..Len(tweets) :
        ~AuthoredBy(tweets[i], following[k])

\* C13: Timeline(U) of a stored user U returns 200 'success' in both empty
\* cases: data [] with 'No users followed yet' exactly when U's following
\* is empty, and data [] with 'Timeline retrieved successfully' when U
\* follows somebody and no followed user is the author of a tweet.
C13_TimelineEmptyCases ==
    (req.op = "get_user_timeline" /\ Exists(users, req.user_id))
    => LET following == FollowingOf(users, ObjectId(req.user_id)) IN
       /\ (resp.http = OK /\ resp.body.message = "No users followed yet")
            <=> following = <<>>
       /\ following = <<>>
            => (resp.body.status = "success" /\ resp.body.data = <<>>)
       /\ (following # <<>> /\ NoFollowedAuthor(following))
            => (/\ resp.http = OK
                /\ resp.body.status = "success"
                /\ resp.body.message = "Timeline retrieved successfully"
                /\ resp.body.data = <<>>)

\* Timeline of a user who follows somebody was answered with an empty list
\* while a tweet of a user that is not followed is stored.
C13_Witness ==
    /\ req.op = "get_user_timeline"
    /\ Exists(users, req.user_id)
    /\ FollowingOf(users, ObjectId(req.user_id)) # <<>>
    /\ NoFollowedAuthor(FollowingOf(users, ObjectId(req.user_id)))
    /\ \E i \in 1..Len(tweets) : Exists(users, tweets[i].user_id)
    /\ resp.body.message = "Timeline retrieved successfully"
    /\ resp.body.data = <<>>

\* C14: GET /ping returns 200 with status 'success', message 'pong' and
\* data null in every state, also while the store fails, and leaves the
\* store as it is.
C14_PingAlwaysPong ==
    [][Serves("health_check") =>
         /\ resp'.http = OK
         /\ resp'.body.status = "success"
         /\ resp'.body.message = "pong"
         /\ "data" \in resp'.body.keys
         /\ resp'.body.data = None
         /\ users' = users /\ tweets' = tweets]_vars

\* /ping answered pong while the store was failing and held a user.
C14_Witness ==
    /\ req.op = "health_check"
    /\ ~store_up
    /\ Len(users) > 0
    /\ resp.http = OK
    /\ resp.body.message = "pong"

\* The body is the envelope: status, message, a code equal to the HTTP
\* status, and data under 'success' or error under 'error', never both.
IsEnvelope(r) ==
    /\ {"status", "message", "code"} \subseteq r.body.keys
    /\ r.body.status \in {"success", "error"}
    /\ r.body.message # ""
    /\ r.body.code = r.http
    /\ r.body.status = "success"
         => ("data" \in r.body.keys /\ "error" \notin r.body.keys)
    /\ r.body.status = "error"
         => ("error" \in r.body.keys /\ "data" \notin r.body.keys)

\* C15 as stated: every response of each of the eight routes is the
\* envelope.
C15_EnvelopeEverywhere_AsStated ==
    req.op # "none" => IsEnvelope(resp)

\* C15 amended: every response of the seven routes other than /ping is the
\* envelope; the body of /ping has status, message and data and no code.
C15_EnvelopeExceptPing ==
    /\ req.op \notin {"none", "health_check"} => IsEnvelope(resp)
    /\ req.op = "health_check"
         => resp.body.keys = {"status", "message", "data"}

\* ListAll-users was answered 500 by the except branch while the store was
\* failing: an error envelope whose code is the HTTP status.
C15_Witness ==
    /\ req.op = "get_users"
    /\ ~store_up
    /\ resp.http = INTERNAL_SERVER_ERROR
    /\ resp.body.code = INTERNAL_SERVER_ERROR
    /\ resp.body.status = "error"
    /\ "error" \in resp.body.keys

\* C16: every error response carries an error object whose details field
\* is a non-null, non-empty description of the failure.
C16_ErrorHasDetails ==
    (req.op # "none" /\ resp.body.status = "error")
        => /\ "error" \in resp.body.keys
           /\ resp.body.error # None
           /\ resp.body.error.details # ""

\* A value in string representation, not a native bson.ObjectId.
IsString(v) == v.t \in {"str", "hex"}

\* C17: in every successful response every identifier (document id, tweet
\* author id, each member of following) is a string, never a native
\* object id; GetById renders following as ListAll-users does.
C17_IdsAreStrings ==
    (req.op # "none" /\ resp.body.status = "success") =>
        CASE req.op = "create_user" -> IsString(resp.body.data.user_id)
          [] req.op = "create_tweet" ->
                /\ IsString(resp.body.data.tweet_id)
                /\ IsString(resp.body.data.user_id)
          [] req.op = "follow_user" -> IsString(resp.body.data.user_id)
          [] req.op = "get_users" ->
                \A i \in 1..Len(resp.body.data) :
                    /\ IsString(resp.body.data[i]._id)
                    /\ \A m \in Range(resp.body.data[i].following) :
                           IsString(m)
          [] req.op \in {"get_tweets", "get_user_timeline"} ->
                \A i \in 1..Len(resp.body.data) :
                    /\ IsString(resp.body.data[i]._id)
                    /\ IsString(resp.body.data[i].user_id)
          [] req.op = "get_user_by_id" ->
                /\ IsString(resp.body.data._id)
                /\ \A m \in Range(resp.body.data.following) : IsString(m)
                /\ \A i \in 1..Len(users) :
                       users[i]._id = ObjectId(req.user_id)
                           => resp.body.data.following =
                                  [k \in 1..Len(users[i].following) |->
                                      StrOf(users[i].following[k])]
          [] OTHER -> TRUE

\* C18: the store only grows: no user and no tweet is removed, a stored
\* user's _id, username, email and created_at never change, a stored tweet
\* never changes, and no member leaves a user's following.
C18_StoreOnlyGrows ==
    [][/\ Len(users') >= Len(users)
       /\ Len(tweets') >= Len(tweets)
       /\ \A i \in 1..Len(users) :
              /\ users'[i]._id = users[i]._id
              /\ users'[i].username = users[i].username
              /\ users'[i].email = users[i].email
              /\ users'[i].created_at = users[i].created_at
              /\ Range(users[i].following) \subseteq Range(users'[i].following)
       /\ \A i \in 1..Len(tweets) :
              /\ tweets'[i]._id = tweets[i]._id
              /\ tweets'[i].user_id = tweets[i].user_id
              /\ tweets'[i].text = tweets[i].text
              /\ tweets'[i].created_at = tweets[i].created_at]_vars

\* A second follow by the same user was answered 200 and both members are
\* in the follower's following, with a tweet stored.
C18_Witness ==
    /\ req.op = "follow_user"
    /\ resp.http = OK
    /\ tweets # <<>>
    /\ \E i \in 1..Len(users) :
           /\ users[i]._id = ObjectId(req.json.current_user_id)
           /\ Len(users[i].following) = 2

\* C19: while the store answers, ListAll-users returns 200 with one entry
\* per 201 answer of Create-user so far, in the order of those answers, and
\* ListAll-tweets likewise for Create-tweet; a Create call answered
\* otherwise adds no entry.
C19_ListAllIsWhatWasCreated ==
    /\ (req.op = "get_users" /\ store_up) =>
          /\ resp.http = OK
          /\ resp.body.status = "success"
          /\ Len(resp.body.data) = Len(created.users)
          /\ \A i \in 1..Len(created.users) :
                /\ resp.body.data[i]._id = created.users[i].user_id
                /\ resp.body.data[i].username = created.users[i].username
                /\ resp.body.data[i].email = created.users[i].email
    /\ (req.op = "get_tweets" /\ store_up) =>
          /\ resp.http = OK
          /\ resp.body.status = "success"
          /\ Len(resp.body.data) = Len(created.tweets)
          /\ \A i \in 1..Len(created.tweets) :
                /\ resp.body.data[i]._id = created.tweets[i].tweet_id
                /\ resp.body.data[i].user_id = created.tweets[i].user_id
                /\ resp.body.data[i].text = created.tweets[i].text

\* ListAll-users was answered 200 with two entries after two Create-user
\* calls were answered 201, a tweet being stored as well.
C19_Witness ==
    /\ req.op = "get_users"
    /\ resp.http = OK
    /\ Len(resp.body.data) = 2
    /\ Len(created.users) = 2
    /\ created.tweets # <<>>

\* The request of the step passes the handler's validation and the parsing
\* of the identifier of its first store call, so the handler calls the
\* store.
CallsStore ==
    \/ Serves("get_users")
    \/ Serves("get_tweets")
    \/ /\ Serves("create_user")
       /\ ~Missing(req'.json.username)
       /\ ~Missing(req'.json.email)
    \/ /\ Serves("create_tweet")
       /\ ~Missing(req'.json.user_id)
       /\ ~Missing(req'.json.text)
    \/ /\ Serves("get_user_by_id")
       /\ ~Malformed(req'.user_id)
    \/ /\ Serves("get_user_timeline")
       /\ ~Malformed(req'.user_id)
    \/ /\ Serves("follow_user")
       /\ ~Missing(req'.json.current_user_id)
       /\ ~Malformed(req'.user_id)

\* The fixed message of the except branch of each endpoint.
FailureMessage(op) ==
    CASE op = "create_user" -> "Error creating user"
      [] op = "get_users" -> "Error fetching users"
      [] op = "get_user_by_id" -> "Error fetching user"
      [] op = "create_tweet" -> "Error creating tweet"
      [] op = "get_tweets" -> "Error fetching tweets"
      [] op = "follow_user" -> "Error following user"
      [] op = "get_user_timeline" -> "Error fetching timeline"

\* C20: a handler other than /ping whose store call fails answers 500 with
\* status 'error', the fixed message of its endpoint and error.details equal
\* to the message of the failure, and leaves the store unchanged.
C20_StoreFailureIs500 ==
    [][(CallsStore /\ ~store_up) =>
          /\ Answers500(FailureMessage(req'.op))
          /\ resp'.body.code = INTERNAL_SERVER_ERROR
          /\ resp'.body.error # None
          /\ resp'.body.error.details = DatabaseError
          /\ users' = users
          /\ tweets' = tweets]_vars

\* Follow between two stored users was answered 500 'Error following user'
\* with the failure's message while the store was failing.
C20_Witness ==
    /\ req.op = "follow_user"
    /\ ~store_up
    /\ Len(users) = 2
    /\ req.user_id = Hex(2, FALSE)
    /\ req.json.current_user_id = Hex(1, FALSE)
    /\ resp.http = INTERNAL_SERVER_ERROR
    /\ resp.body.message = "Error following user"
    /\ resp.body.error.details = DatabaseError
    /\ users[1].following = <<>>

\* The threads t1 and t2 have answered Follow requests of one follower for
\* two different targets, each request having arrived with both of its users
\* stored and the follower not following its target, and no other thread
\* has a request for either target.
TwoFollowsOfOneFollower(t1, t2) ==
    /\ t1 # t2
    /\ threads[t1].pc = "done" /\ threads[t2].pc = "done"
    /\ threads[t1].fresh /\ threads[t2].fresh
    /\ threads[t1].json.current_user_id = threads[t2].json.current_user_id
    /\ threads[t1].user_id # threads[t2].user_id
    /\ \A t3 \in Threads \ {t1, t2} :
           threads[t3].user_id \notin
               {threads[t1].user_id, threads[t2].user_id}

\* C21: Follow(B, A) and Follow(C, A) with A, B, C stored and B # C, their
\* store steps interleaved in any order, both return 200 and A's following
\* holds both B and C.
C21_ConcurrentFollowsLoseNothing ==
    \A t1, t2 \in Threads :
        TwoFollowsOfOneFollower(t1, t2) =>
            /\ threads[t1].resp.http = OK
            /\ threads[t2].resp.http = OK
            /\ threads[t1].resp.body.message = "User followed successfully"
            /\ threads[t2].resp.body.message = "User followed successfully"
            /\ \E i \in 1..Len(users) :
                   /\ users[i]._id = Oid(threads[t1].json.current_user_id.n)
                   /\ Oid(threads[t1].user_id.n) \in Range(users[i].following)
                   /\ Oid(threads[t2].user_id.n) \in Range(users[i].following)

\* Both requests read the follower before either update was applied (each
\* thread holds a follower document with an empty following), and both are
\* answered.
C21_Witness ==
    \E t1, t2 \in Threads :
        /\ TwoFollowsOfOneFollower(t1, t2)
        /\ threads[t1].current_user # None
        /\ threads[t2].current_user # None
        /\ threads[t1].current_user.following = <<>>
        /\ threads[t2].current_user.following = <<>>
        /\ threads[t1].resp.http = OK
        /\ threads[t2].resp.http = OK

\* The threads of S, two or more, have answered the same Follow request,
\* which arrived at each of them with both users stored and the follower
\* not following the target, and no thread outside S has a request for
\* that target.
IdenticalFollows(S) ==
    /\ Cardinality(S) >= 2
    /\ \A t \in S : threads[t].pc = "done" /\ threads[t].fresh
    /\ \A t1, t2 \in S :
           /\ threads[t1].user_id = threads[t2].user_id
           /\ threads[t1].json = threads[t2].json
    /\ \A t \in S, t3 \in Threads \ S :
           threads[t3].user_id # threads[t].user_id

\* C22: of N >= 2 identical Follow(B, A) requests that arrive while A does
\* not follow B, their store steps interleaved in any order, exactly one
\* returns 200 'User followed successfully', every other one returns 500
\* 'Failed to follow user', and B occurs exactly once in A's following.
C22_IdenticalFollowsOneWinner ==
    \A S \in SUBSET Threads :
        IdenticalFollows(S) =>
            /\ Cardinality({t \in S :
                   /\ threads[t].resp.http = OK
                   /\ threads[t].resp.body.message =
                          "User followed successfully"}) = 1
            /\ \A t \in S :
                   threads[t].resp.http # OK =>
                       /\ threads[t].resp.http = INTERNAL_SERVER_ERROR
                       /\ threads[t].resp.body.message =
                              "Failed to follow user"
            /\ \A t \in S : \E i \in 1..Len(users) :
                   /\ users[i]._id = Oid(threads[t].json.current_user_id.n)
                   /\ Count(users[i].following, Oid(threads[t].user_id.n)) = 1

\* Two identical requests are answered, one with 200 and one with 500, and
\* the one answered 500 had read the follower before the other's update.
C22_Witness ==
    \E S \in SUBSET Threads :
        /\ IdenticalFollows(S)
        /\ \E t \in S :
               /\ threads[t].resp.http = INTERNAL_SERVER_ERROR
               /\ threads[t].current_user # None
               /\ threads[t].current_user.following = <<>>
        /\ \E t \in S : threads[t].resp.http = OK

\* C23: in every reachable state every member of every user's following is
\* the identifier of a user stored in the users collection.
C23_FollowingRefersToStoredUsers ==
    \A i \in 1..Len(users) :
        \A m \in Range(users[i].following) :
            \E j \in 1..Len(users) : users[j]._id = m

\* A follow was stored, and a thread whose target was not stored when it
\* looked it up (its follower being stored) was answered 404.
C23_Witness ==
    /\ \E i \in 1..Len(users) : users[i].following # <<>>
    /\ \E t \in Threads :
           /\ threads[t].pc = "done"
           /\ threads[t].resp.http = NOT_FOUND
           /\ threads[t].user = None
           /\ threads[t].current_user # None

\* The answer of the step is the answer the same read request gets in the
\* state the step leaves.
SameAnswerAgain ==
    /\ req'.op = "get_users" => resp' = get_users_run'
    /\ req'.op = "get_tweets" => resp' = get_tweets_run'
    /\ \A id \in PathIds :
           /\ (req'.op = "get_user_by_id" /\ req'.user_id = id)
                  => resp' = get_user_by_id_run(id)'
           /\ (req'.op = "get_user_timeline" /\ req'.user_id = id)
                  => resp' = get_user_timeline_run(id)'

\* C24: ListAll-users, GetById, ListAll-tweets and Timeline leave users and
\* tweets unchanged on every outcome, and the same request repeated right
\* after gets the same answer.
C24_ReadsChangeNothing ==
    [][(\E op \in {"get_users", "get_user_by_id", "get_tweets",
                   "get_user_timeline"} : Serves(op)) =>
          /\ users' = users
          /\ tweets' = tweets
          /\ SameAnswerAgain]_vars

\* GetById of an identifier that is not stored was answered 404, with a
\* user and a tweet stored.
C24_Witness ==
    /\ req.op = "get_user_by_id"
    /\ resp.http = NOT_FOUND
    /\ users # <<>>
    /\ tweets # <<>>
====
